---- MODULE Spec2Model ----
(***************************************************************************)
(* beancount.ops.documents: verification of Document directives and the    *)
(* automatic discovery of dated document files under the configured        *)
(* document roots.                                                         *)
(*                                                                         *)
(* Python strings (file names, paths, account names) are modelled as       *)
(* sequences of one-character strings, so that matching, prefix tests,     *)
(* path resolution and account derivation are computed character by        *)
(* character, as the code computes them.                                   *)
(***************************************************************************)
EXTENDS Integers, Sequences, FiniteSets, Bags, TLC

VARIABLES mode, pc, run, entries, given, options_map, accounts, idx,
          document_errors, autodoc_entries, autodoc_errors, result, prev, call

vars == <<mode, pc, run, entries, given, options_map, accounts, idx,
          document_errors, autodoc_entries, autodoc_errors, result, prev, call>>

\* Bounds of the model.
MaxEntries == 2
MaxDirs == 2
MaxRuns == 2

\* Python's None and an optional value holding v.
None == <<>>
Some(v) == <<v>>

-----------------------------------------------------------------------------
(* Strings *)

DigitChars == <<"0", "1", "2", "3", "4", "5", "6", "7", "8", "9">>

IsDigit(c) == \E k \in 1..Len(DigitChars) : DigitChars[k] = c

DigitValue(c) == (CHOOSE k \in 1..Len(DigitChars) : DigitChars[k] = c) - 1

\* int(s) for a string of decimal digits.
RECURSIVE int(_)
int(s) == IF s = <<>> THEN 0
          ELSE int(SubSeq(s, 1, Len(s) - 1)) * 10 + DigitValue(s[Len(s)])

\* s.startswith(p)
StartsWith(s, p) == Len(p) <= Len(s) /\ SubSeq(s, 1, Len(p)) = p

\* s[n:] with n counted from 0.
From(s, n) == SubSeq(s, n + 1, Len(s))

\* s.replace(a, b) for one-character a and b.
Replace(s, a, b) == [k \in 1..Len(s) |-> IF s[k] = a THEN b ELSE s[k]]

\* s.split(sep) for a one-character sep.
RECURSIVE Split(_, _)
Split(s, sep) ==
    IF \A k \in 1..Len(s) : s[k] # sep THEN <<s>>
    ELSE LET k == CHOOSE j \in 1..Len(s) :
                      s[j] = sep /\ \A h \in 1..(j - 1) : s[h] # sep
         IN  <<SubSeq(s, 1, k - 1)>> \o Split(From(s, k), sep)

\* sep.join(parts)
RECURSIVE Join(_, _)
Join(parts, sep) ==
    IF parts = <<>> THEN <<>>
    ELSE IF Len(parts) = 1 THEN parts[1]
    ELSE parts[1] \o sep \o Join(Tail(parts), sep)

\* The concatenation of a sequence of sequences.
RECURSIVE Flatten(_)
Flatten(ss) == IF ss = <<>> THEN <<>> ELSE Head(ss) \o Flatten(Tail(ss))

-----------------------------------------------------------------------------
(* os.path, as used to resolve a document root *)

Sep == <<"/">>

isabs(p) == StartsWith(p, Sep)

\* The last position of "/" in p, 0 when there is none.
LastSlash(p) ==
    IF \A k \in 1..Len(p) : p[k] # "/" THEN 0
    ELSE CHOOSE k \in 1..Len(p) : p[k] = "/" /\ \A h \in (k + 1)..Len(p) : p[h] # "/"

RECURSIVE RStripSlash(_)
RStripSlash(p) == IF p # <<>> /\ p[Len(p)] = "/"
                  THEN RStripSlash(SubSeq(p, 1, Len(p) - 1)) ELSE p

dirname(p) ==
    LET head == SubSeq(p, 1, LastSlash(p))
    IN  IF head # <<>> /\ \E k \in 1..Len(head) : head[k] # "/"
        THEN RStripSlash(head) ELSE head

join(a, b) ==
    IF isabs(b) THEN b
    ELSE IF a = <<>> \/ a[Len(a)] = "/" THEN a \o b
    ELSE a \o Sep \o b

\* The components kept by normpath, folded from the left.
RECURSIVE NormComps(_, _, _)
NormComps(comps, kept, rooted) ==
    IF comps = <<>> THEN kept
    ELSE LET c == Head(comps)
         IN  IF c = <<>> \/ c = <<".">> THEN NormComps(Tail(comps), kept, rooted)
             ELSE IF \/ c # <<".", ".">>
                     \/ (~rooted /\ kept = <<>>)
                     \/ (kept # <<>> /\ kept[Len(kept)] = <<".", ".">>)
                  THEN NormComps(Tail(comps), Append(kept, c), rooted)
             ELSE IF kept # <<>>
                  THEN NormComps(Tail(comps), SubSeq(kept, 1, Len(kept) - 1), rooted)
             ELSE NormComps(Tail(comps), kept, rooted)

normpath(p) ==
    IF p = <<>> THEN <<".">>
    ELSE LET slashes == IF ~isabs(p) THEN <<>>
                        ELSE IF StartsWith(p, <<"/", "/">>)
                                /\ ~StartsWith(p, <<"/", "/", "/">>)
                             THEN <<"/", "/">>
                        ELSE Sep
             body == Join(NormComps(Split(p, "/"), <<>>, isabs(p)), Sep)
         IN  IF slashes \o body = <<>> THEN <<".">> ELSE slashes \o body

\* The working directory of the process.
Cwd == <<"/", "w">>

abspath(p) == normpath(IF isabs(p) THEN p ELSE join(Cwd, p))

-----------------------------------------------------------------------------
(* The file system the program runs on: every directory with its files, in  *)
(* the order a walk visits them.                                            *)

Dated(y, m, d, rest) == y \o <<"-">> \o m \o <<"-">> \o d \o rest

Y2013 == <<"2", "0", "1", "3">>
Y2014 == <<"2", "0", "1", "4">>

FPlain == <<"n", ".", "t">>
FDot == Dated(Y2014, <<"0", "1">>, <<"0", "1">>, <<".", "p">>)
FDash == Dated(Y2014, <<"0", "1">>, <<"0", "2">>, <<"-", "s", ".", "p">>)
FOneChar == Dated(Y2014, <<"0", "1">>, <<"0", "3">>, <<"x">>)
FDigit == Dated(Y2014, <<"0", "1">>, <<"0", "4">>, <<"5", ".", "p">>)
FNoSep == Dated(Y2014, <<"0", "1">>, <<"0", "5">>, <<>>)
FNewline == Dated(Y2014, <<"0", "1">>, <<"0", "6">>, <<"\n", "p">>)
FBadDay == Dated(Y2014, <<"0", "2">>, <<"3", "1">>, <<"-", "s", ".", "p">>)
FEarly == Dated(Y2013, <<"1", "2">>, <<"3", "1">>, <<"-", "s", ".", "p">>)

DirD == <<"/", "d">>
DirDA == <<"/", "d", "/", "A">>
DirDAB == <<"/", "d", "/", "A", "/", "B">>
DirDABC == <<"/", "d", "/", "A", "/", "B", "/", "C">>
DirDAB2 == <<"/", "d", "/", "A", "/", "B", "2">>
DirL == <<"/", "l">>
DirLE == <<"/", "l", "/", "e">>
DirLEA == <<"/", "l", "/", "e", "/", "A">>
DirLEC == <<"/", "l", "/", "e", "/", "C">>

LedgerAbs == <<"/", "l", "/", "x">>
LedgerRel == <<"x">>

FileSystem ==
    << [path |-> DirD, files |-> <<FPlain, FDot>>],
       [path |-> DirDA, files |-> <<FDash>>],
       [path |-> DirDAB, files |-> <<FDot, FOneChar, FDigit, FNoSep, FNewline>>],
       [path |-> DirDABC, files |-> <<FDash>>],
       [path |-> DirDAB2, files |-> <<FDot>>],
       [path |-> DirL, files |-> <<<<"x">>>>],
       [path |-> DirLE, files |-> <<>>],
       [path |-> DirLEA, files |-> <<FBadDay>>],
       [path |-> DirLEC, files |-> <<FEarly>>] >>

\* path.exists(p)
exists(p) ==
    \E k \in 1..Len(FileSystem) :
        \/ FileSystem[k].path = p
        \/ \E f \in 1..Len(FileSystem[k].files) :
               join(FileSystem[k].path, FileSystem[k].files[f]) = p

\* account.walk(directory): one (root, account_name, files) per directory at
\* or below `directory`, the account name being the path below the root with
\* the path separator turned into the account separator.
walk(directory) ==
    LET under(d) == d.path = directory \/ StartsWith(d.path, directory \o Sep)
        visit(d) == [root |-> d.path,
                     account_name |->
                         Replace(From(d.path, Len(directory) + 1), "/", ":"),
                     files |-> d.files]
        below == SelectSeq(FileSystem, under)
    IN  [k \in 1..Len(below) |-> visit(below[k])]

-----------------------------------------------------------------------------
(* Directives and errors *)

Source(filename, lineno) == [filename |-> filename, lineno |-> lineno]

Document(source, date, account, filename) ==
    [kind |-> "Document", source |-> source, date |-> date,
     account |-> account, filename |-> filename]

Open(source, date, account) ==
    [kind |-> "Open", source |-> source, date |-> date, account |-> account]

Price(source, date) ==
    [kind |-> "Price", source |-> source, date |-> date, currency |-> "USD"]

DocumentError(source, message, entry) ==
    [source |-> source, message |-> message, entry |-> entry]

\* template.format(args...)
Format(template, args) == [text |-> template, args |-> args]

\* getters.get_accounts(entries): the account names the entries mention.
get_accounts(es) ==
    {es[k].account : k \in {j \in 1..Len(es) : "account" \in DOMAIN es[j]}}

\* Lexicographic order on tuples of integers of one length.
RECURSIVE TupleLeq(_, _)
TupleLeq(a, b) ==
    \/ a = <<>>
    \/ Head(a) < Head(b)
    \/ Head(a) = Head(b) /\ TupleLeq(Tail(a), Tail(b))

\* data.entry_sortkey(entry): the date, then the kind's rank, then the line.
entry_sortkey(e) ==
    e.date \o << CASE e.kind = "Open" -> 0 - 2
                   [] e.kind = "Document" -> 1
                   [] OTHER -> 0,
                 e.source.lineno >>

\* list.sort(key=data.entry_sortkey): a stable sort.
RECURSIVE SortedInsert(_, _)
SortedInsert(sorted, e) ==
    IF sorted = <<>> THEN <<e>>
    ELSE LET last == sorted[Len(sorted)]
         IN  IF TupleLeq(entry_sortkey(last), entry_sortkey(e))
             THEN Append(sorted, e)
             ELSE Append(SortedInsert(SubSeq(sorted, 1, Len(sorted) - 1), e), last)

\* The list left as it is.
Unsorted(es) == es

RECURSIVE sort(_)
sort(es) == IF es = <<>> THEN <<>>
            ELSE SortedInsert(sort(SubSeq(es, 1, Len(es) - 1)), es[Len(es)])

-----------------------------------------------------------------------------
(* verify_document_entries *)

\* VerifyEntry without the test of path.exists: every document directive is
\* reported.
VerifyEntryIgnoringExistence(errors, entry) ==
    IF entry.kind # "Document" THEN errors
    ELSE Append(errors,
                DocumentError(entry.source,
                              Format("File does not exist: \"{}\"",
                                     <<entry.filename>>),
                              Some(entry)))

\* One iteration of the loop over the entries.
VerifyEntry(errors, entry) ==
    IF entry.kind # "Document" THEN errors
    ELSE IF ~exists(entry.filename)
         THEN Append(errors,
                     DocumentError(entry.source,
                                   Format("File does not exist: \"{}\"",
                                          <<entry.filename>>),
                                   Some(entry)))
    ELSE errors

RECURSIVE VerifyLoop(_, _)
VerifyLoop(es, errors) ==
    IF es = <<>> THEN errors
    ELSE VerifyLoop(Tail(es), VerifyEntry(errors, Head(es)))

verify_document_entries(es) ==
    [entries |-> es, errors |-> VerifyLoop(es, <<>>)]

-----------------------------------------------------------------------------
(* find_documents *)

\* re.match('(\d\d\d\d)-(\d\d)-(\d\d).(.*)', filename): the four groups, or
\* None. The match is anchored at the start only; '.' is any character but a
\* newline and '(.*)' takes what follows up to the first newline.
RECURSIVE UpToNewline(_)
UpToNewline(s) == IF s = <<>> \/ Head(s) = "\n" THEN <<>>
                  ELSE <<Head(s)>> \o UpToNewline(Tail(s))

match(filename) ==
    IF /\ Len(filename) >= 11
       /\ \A k \in {1, 2, 3, 4, 6, 7, 9, 10} : IsDigit(filename[k])
       /\ filename[5] = "-"
       /\ filename[8] = "-"
       /\ filename[11] # "\n"
    THEN Some(<<SubSeq(filename, 1, 4), SubSeq(filename, 6, 7),
                SubSeq(filename, 9, 10), UpToNewline(From(filename, 11))>>)
    ELSE None

IsLeap(y) == y % 4 = 0 /\ (y % 100 # 0 \/ y % 400 = 0)

DaysInMonth(y, m) ==
    IF m = 2 THEN (IF IsLeap(y) THEN 29 ELSE 28)
    ELSE IF m \in {4, 6, 9, 11} THEN 30 ELSE 31

\* datetime.date(y, m, d) raises ValueError unless this holds.
DateValid(y, m, d) ==
    /\ y >= 1 /\ y <= 9999
    /\ m >= 1 /\ m <= 12
    /\ d >= 1 /\ d <= DaysInMonth(y, m)

\* The truth value of the accounts_only argument: None and the empty set are
\* both false.
Truthy(accounts_only) == accounts_only # None /\ accounts_only[1] # {}

\* The directory name relative to the input file itself.
ResolveDirectory(directory, input_filename) ==
    IF ~isabs(directory)
    THEN abspath(normpath(join(dirname(input_filename), directory)))
    ELSE directory

\* MissingRoot without its error: the walk of a missing directory is empty.
MissingRootSilent(directory, input_filename) ==
    [raised |-> FALSE, entries |-> <<>>, errors |-> <<>>]

\* The return value for a root that does not exist.
MissingRoot(directory, input_filename) ==
    [raised |-> FALSE,
     entries |-> <<>>,
     errors |-> << DocumentError(Source(input_filename, 0),
                                 Format("Document root '{}' does not exist.",
                                        <<directory>>),
                                 None) >>]

\* any(account_name.startswith(account) for account in accounts_only)
InChildAccount(account_name, accounts_only) ==
    \E account \in accounts_only : StartsWith(account_name, account)

\* any(account.startswith(account_name) for account in accounts_only)
InParentAccount(account_name, accounts_only) ==
    \E account \in accounts_only : StartsWith(account, account_name)

\* The errors after a file found in an account that is not in accounts_only.
Skipped(errors, filename, account_name, input_filename, accounts_only, strict) ==
    IF ~strict THEN errors
    ELSE IF InChildAccount(account_name, accounts_only)
         THEN Append(errors,
                     DocumentError(Source(input_filename, 0),
                                   Format("Document '{}' found in child account {}.",
                                          <<filename, account_name>>),
                                   None))
    ELSE IF InParentAccount(account_name, accounts_only)
         THEN Append(errors,
                     DocumentError(Source(input_filename, 0),
                                   Format("Document '{}' found in parent account {}.",
                                          <<filename, account_name>>),
                                   None))
    ELSE errors

\* NewDirective with the bare file name for the path.
NewDirectiveBareName(groups, root, account_name, filename, input_filename) ==
    Document(Source(input_filename, 0),
             <<int(groups[1]), int(groups[2]), int(groups[3])>>,
             account_name,
             filename)

\* The new directive of a matched file.
NewDirective(groups, root, account_name, filename, input_filename) ==
    Document(Source(input_filename, 0),
             <<int(groups[1]), int(groups[2]), int(groups[3])>>,
             account_name,
             join(root, filename))

\* One iteration of the loop over the files of a directory. The state of the
\* call is its two lists and whether datetime.date has raised.
FileStep(st, root, account_name, filename, input_filename, accounts_only, strict) ==
    LET mo == match(filename)
    IN  IF st.raised \/ mo = None THEN st
        ELSE IF Truthy(accounts_only) /\ account_name \notin accounts_only[1]
             THEN [st EXCEPT !.errors =
                       Skipped(st.errors, filename, account_name, input_filename,
                               accounts_only[1], strict)]
        ELSE IF ~DateValid(int(mo[1][1]), int(mo[1][2]), int(mo[1][3]))
             THEN [raised |-> TRUE, entries |-> <<>>, errors |-> <<>>]
        ELSE [st EXCEPT !.entries =
                  Append(st.entries,
                         NewDirective(mo[1], root, account_name, filename,
                                      input_filename))]

RECURSIVE FilesLoop(_, _, _, _, _, _)
FilesLoop(st, visit, files, input_filename, accounts_only, strict) ==
    IF files = <<>> THEN st
    ELSE FilesLoop(FileStep(st, visit.root, visit.account_name, Head(files),
                            input_filename, accounts_only, strict),
                   visit, Tail(files), input_filename, accounts_only, strict)

RECURSIVE WalkLoop(_, _, _, _, _)
WalkLoop(st, visits, input_filename, accounts_only, strict) ==
    IF visits = <<>> THEN st
    ELSE WalkLoop(FilesLoop(st, Head(visits), Head(visits).files,
                            input_filename, accounts_only, strict),
                  Tail(visits), input_filename, accounts_only, strict)

\* find_documents(directory, input_filename, accounts_only, strict): the two
\* lists it returns, or raised when it ends in an exception.
find_documents(directory, input_filename, accounts_only, strict) ==
    LET resolved == ResolveDirectory(directory, input_filename)
    IN  IF ~exists(resolved) THEN MissingRoot(resolved, input_filename)
        ELSE WalkLoop([raised |-> FALSE, entries |-> <<>>, errors |-> <<>>],
                      walk(resolved), input_filename, accounts_only, strict)

-----------------------------------------------------------------------------
(* The inputs *)

AccA == <<"A">>
AccAB == <<"A", ":", "B">>
AccAB2 == <<"A", ":", "B", "2">>
AccABC == <<"A", ":", "B", ":", "C">>
AccC == <<"C">>

AccountSamples == {AccA, AccAB, AccAB2, AccABC, AccC}

EntrySamples ==
    { Open(Source(LedgerAbs, 1), <<2014, 1, 1>>, AccAB),
      Document(Source(LedgerAbs, 2), <<2014, 1, 2>>, AccAB, join(DirDAB, FDot)),
      Document(Source(LedgerAbs, 3), <<2013, 12, 31>>, AccA, <<"/", "d", "/", "q">>),
      Open(Source(LedgerAbs, 4), <<2014, 1, 3>>, AccC),
      Price(Source(LedgerAbs, 5), <<2014, 1, 1>>) }

\* The parsed streams: every directive comes from a line of its own.
InputStreams ==
    UNION { {es \in [1..n -> EntrySamples] :
                 \A a, b \in 1..n : a # b => es[a] # es[b]} : n \in 0..MaxEntries }

Ledgers == {LedgerAbs, LedgerRel}

Roots == {DirD, <<".", "/", "e">>, <<"/", "m">>}

DirLists == UNION { [1..n -> Roots] : n \in 0..MaxDirs }

FindCalls ==
    [directory : Roots, input_filename : Ledgers,
     accounts_only : {None} \cup {Some(a) : a \in SUBSET AccountSamples},
     strict : BOOLEAN]

-----------------------------------------------------------------------------
(* The state machine: a call of process_documents (repeated on its own      *)
(* output), or a direct call of find_documents.                             *)

Init ==
    /\ mode \in {"process", "find"}
    /\ run = 1
    /\ accounts = {}
    /\ idx = 0
    /\ document_errors = <<>>
    /\ autodoc_entries = <<>>
    /\ autodoc_errors = <<>>
    /\ result = None
    /\ prev = None
    /\ IF mode = "process"
       THEN /\ pc = "start"
            /\ entries \in InputStreams
            /\ options_map \in [filename : Ledgers, documents : DirLists]
            /\ call = None
       ELSE /\ pc = "find"
            /\ entries = <<>>
            /\ options_map = [filename |-> LedgerAbs, documents |-> <<>>]
            /\ call \in {Some(c) : c \in FindCalls}
    /\ given = entries

\* extend that skips the items the list already holds.
ExtendWithNew(list, items) ==
    list \o SelectSeq(items, LAMBDA e : \A k \in 1..Len(list) : list[k] # e)

\* list.extend(items)
extend(list, items) == list \o items

\* The two error lists in the other order.
FinderErrorsFirst(verify_errors, finder_errors) == finder_errors \o verify_errors

\* The error list process_documents returns.
ReturnedErrors(verify_errors, finder_errors) == verify_errors \o finder_errors

\* process_documents up to the loop over the document roots: the entries are
\* verified and, when roots are configured, the valid accounts are collected.
Verify ==
    /\ pc = "start"
    /\ LET v == verify_document_entries(entries)
       IN  /\ entries' = v.entries
           /\ document_errors' = v.errors
           /\ accounts' = IF options_map.documents # <<>>
                          THEN get_accounts(v.entries) ELSE {}
    /\ autodoc_entries' = <<>>
    /\ autodoc_errors' = <<>>
    /\ idx' = 1
    /\ pc' = "loop"
    /\ UNCHANGED <<mode, run, given, options_map, result, prev, call>>

\* One iteration of the loop over the document roots. An exception from
\* find_documents leaves process_documents without a return value.
FindInRoot ==
    /\ pc = "loop"
    /\ idx <= Len(options_map.documents)
    /\ LET found == find_documents(options_map.documents[idx],
                                   options_map.filename, Some(accounts), FALSE)
       IN  IF found.raised
           THEN /\ pc' = "raised"
                /\ UNCHANGED <<autodoc_entries, autodoc_errors, idx>>
           ELSE /\ autodoc_entries' = extend(autodoc_entries, found.entries)
                /\ autodoc_errors' = extend(autodoc_errors, found.errors)
                /\ idx' = idx + 1
                /\ pc' = "loop"
    /\ UNCHANGED <<mode, run, entries, given, options_map, accounts,
                   document_errors, result, prev, call>>

\* The merge: the caller's list is extended and sorted in place and returned
\* with the errors.
Merge ==
    /\ pc = "loop"
    /\ idx > Len(options_map.documents)
    /\ entries' = sort(extend(entries, autodoc_entries))
    /\ result' = Some([entries |-> entries',
                       errors |-> ReturnedErrors(document_errors, autodoc_errors)])
    /\ pc' = "done"
    /\ UNCHANGED <<mode, run, given, options_map, accounts, idx, document_errors,
                   autodoc_entries, autodoc_errors, prev, call>>

\* process_documents is called again with the stream it returned, the file
\* system and the options being unchanged.
Rerun ==
    /\ mode = "process"
    /\ pc = "done"
    /\ run < MaxRuns
    /\ run' = run + 1
    /\ prev' = Some([entries |-> entries, synthesized |-> autodoc_entries,
                     given |-> given])
    /\ given' = entries
    /\ result' = None
    /\ pc' = "start"
    /\ UNCHANGED <<mode, entries, options_map, accounts, idx, document_errors,
                   autodoc_entries, autodoc_errors, call>>

\* A direct call of find_documents.
CallFindDocuments ==
    /\ mode = "find"
    /\ pc = "find"
    /\ LET found == find_documents(call[1].directory, call[1].input_filename,
                                   call[1].accounts_only, call[1].strict)
       IN  IF found.raised
           THEN /\ pc' = "raised"
                /\ UNCHANGED result
           ELSE /\ pc' = "done"
                /\ result' = Some([entries |-> found.entries,
                                   errors |-> found.errors])
    /\ UNCHANGED <<mode, run, entries, given, options_map, accounts, idx,
                   document_errors, autodoc_entries, autodoc_errors, prev, call>>

Next == Verify \/ FindInRoot \/ Merge \/ Rerun \/ CallFindDocuments

Spec == Init /\ [][Next]_vars

-----------------------------------------------------------------------------
(* Vocabulary of the properties *)

\* The files a walk of `directory` meets, in the order it meets them.
WalkedFiles(directory) ==
    LET w == walk(directory)
    IN  Flatten([k \in 1..Len(w) |->
                    [f \in 1..Len(w[k].files) |->
                        [root |-> w[k].root, account_name |-> w[k].account_name,
                         filename |-> w[k].files[f]]]])

PathOf(file) == file.root \o <<"/">> \o file.filename

\* The positions of a sequence that satisfy Test.
Positions(seq, Test(_)) == {k \in 1..Len(seq) : Test(seq[k])}

\* Four digits, '-', two digits, '-', two digits.
HasDatePrefix(name) ==
    /\ Len(name) >= 10
    /\ \A k \in {1, 2, 3, 4, 6, 7, 9, 10} : IsDigit(name[k])
    /\ name[5] = "-" /\ name[8] = "-"

\* The date prefix, one non-digit separator character, a non-empty suffix.
HasDocumentShape(name) ==
    /\ HasDatePrefix(name)
    /\ Len(name) >= 12
    /\ ~IsDigit(name[11])

\* The resolved root of the direct call of find_documents.
CalledRoot == ResolveDirectory(call[1].directory, call[1].input_filename)

FindReturned == mode = "find" /\ pc = "done"

ProcessReturned == mode = "process" /\ pc = "done"

\* The resolved root of the k-th configured directory.
ConfiguredRoot(k) == ResolveDirectory(options_map.documents[k], options_map.filename)

IsChildError(e, file) ==
    e.message = Format("Document '{}' found in child account {}.",
                       <<file.filename, file.account_name>>)

IsParentError(e, file) ==
    e.message = Format("Document '{}' found in parent account {}.",
                       <<file.filename, file.account_name>>)

\* C1: a file is recognized as a document only if its name is the date
\* prefix, one non-digit separator and a non-empty suffix; every other file
\* produces neither a directive nor an error, in find_documents and so in
\* process_documents.
C1_OnlyShapedNamesAreDocuments ==
    /\ (FindReturned /\ exists(CalledRoot)) =>
          \A p \in 1..Len(WalkedFiles(CalledRoot)) :
              LET file == WalkedFiles(CalledRoot)[p]
              IN  ~HasDocumentShape(file.filename) =>
                      /\ \A k \in 1..Len(result[1].entries) :
                             result[1].entries[k].filename # PathOf(file)
                      /\ \A k \in 1..Len(result[1].errors) :
                             /\ ~IsChildError(result[1].errors[k], file)
                             /\ ~IsParentError(result[1].errors[k], file)
    /\ ProcessReturned =>
          \A r \in 1..Len(options_map.documents) :
              exists(ConfiguredRoot(r)) =>
                  \A p \in 1..Len(WalkedFiles(ConfiguredRoot(r))) :
                      LET file == WalkedFiles(ConfiguredRoot(r))[p]
                      IN  ~HasDocumentShape(file.filename) =>
                              \A k \in 1..Len(autodoc_entries) :
                                  autodoc_entries[k].filename # PathOf(file)

\* A true descendant: the ancestor's name, the account separator, and more.
\* The root of the tree, whose account name is empty, is above every account.
IsDescendant(child, ancestor) ==
    \/ ancestor = <<>> /\ child # <<>>
    \/ StartsWith(child, ancestor \o <<":">>)

\* C2: with strict=True and a non-empty accounts_only, a date-named file of a
\* directory whose account is not in accounts_only gets a 'child account'
\* error iff its account is a true descendant of a filtered account, else a
\* 'parent account' error iff its account is an ancestor of a filtered
\* account, else no error; at most one error and never a directive.
C2_StrictReportsTrueRelativesOnly ==
    (/\ FindReturned
     /\ exists(CalledRoot)
     /\ call[1].strict
     /\ Truthy(call[1].accounts_only)) =>
        \A p \in 1..Len(WalkedFiles(CalledRoot)) :
            LET file == WalkedFiles(CalledRoot)[p]
                filter == call[1].accounts_only[1]
                child == \E a \in filter : IsDescendant(file.account_name, a)
                parent == \E a \in filter : IsDescendant(a, file.account_name)
                IsChild(e) == IsChildError(e, file)
                IsParent(e) == IsParentError(e, file)
                childErrors == Cardinality(Positions(result[1].errors, IsChild))
                parentErrors == Cardinality(Positions(result[1].errors, IsParent))
            IN  (match(file.filename) # None /\ file.account_name \notin filter) =>
                    /\ childErrors = (IF child THEN 1 ELSE 0)
                    /\ parentErrors = (IF ~child /\ parent THEN 1 ELSE 0)
                    /\ \A k \in 1..Len(result[1].entries) :
                           result[1].entries[k].filename # PathOf(file)

\* C3: process_documents never raises: every failure, a file with an invalid
\* calendar date in its name included, is returned as an error record.
C3_ProcessNeverRaises == ~(mode = "process" /\ pc = "raised")

\* C4: given at least one document root, a date-named file yields a
\* synthesized directive iff the account of its directory is among the
\* accounts of the input entries, also when that set is empty.
C4_OnlyValidAccounts ==
    ProcessReturned =>
        \A r \in 1..Len(options_map.documents) :
            exists(ConfiguredRoot(r)) =>
                \A p \in 1..Len(WalkedFiles(ConfiguredRoot(r))) :
                    LET file == WalkedFiles(ConfiguredRoot(r))[p]
                    IN  match(file.filename) # None =>
                            ((\E k \in 1..Len(autodoc_entries) :
                                  autodoc_entries[k].filename = PathOf(file))
                             <=> file.account_name \in get_accounts(given))

\* The number of times e occurs in seq.
Count(seq, e) == Cardinality({k \in 1..Len(seq) : seq[k] = e})

\* The elements of a sequence as a bag.
BagOf(seq) == [e \in {seq[k] : k \in 1..Len(seq)} |-> Count(seq, e)]

IsMissingDocument(e) == e.kind = "Document" /\ ~exists(e.filename)

MissingFileError(e) ==
    [source |-> e.source,
     message |-> [text |-> "File does not exist: \"{}\"", args |-> <<e.filename>>],
     entry |-> <<e>>]

\* The errors the verifier owes for a stream: one per document directive
\* whose file is missing, in the order of the stream.
MissingFileErrors(stream) ==
    LET missing == SelectSeq(stream, IsMissingDocument)
    IN  [k \in 1..Len(missing) |-> MissingFileError(missing[k])]

MissingRootError(directory, ledger) ==
    [source |-> [filename |-> ledger, lineno |-> 0],
     message |-> [text |-> "Document root '{}' does not exist.",
                  args |-> <<directory>>],
     entry |-> None]

\* What the k-th configured root owes to the result of process_documents.
RootEntries(k) ==
    IF exists(ConfiguredRoot(k))
    THEN find_documents(options_map.documents[k], options_map.filename,
                        Some(get_accounts(given)), FALSE).entries
    ELSE <<>>

RootErrors(k) ==
    IF exists(ConfiguredRoot(k))
    THEN find_documents(options_map.documents[k], options_map.filename,
                        Some(get_accounts(given)), FALSE).errors
    ELSE <<MissingRootError(ConfiguredRoot(k), options_map.filename)>>

\* C6: for a root that does not exist, find_documents returns no directive
\* and the single error 'Document root '<directory>' does not exist.' with
\* source (ledger file, 0) and no directive; in process_documents the missing
\* root never ends the call, and every other root, before or after it, still
\* contributes its directives and errors to the result.
C6_MissingRootIsLocal ==
    /\ (mode = "find" /\ pc # "find" /\ ~exists(CalledRoot)) =>
           /\ pc = "done"
           /\ result = Some([entries |-> <<>>,
                             errors |-> <<MissingRootError(
                                 CalledRoot, call[1].input_filename)>>])
    /\ (mode = "process" /\ pc = "raised") => exists(ConfiguredRoot(idx))
    /\ (mode = "process" /\ pc = "loop") =>
           \A k \in 1..(idx - 1) :
               ~exists(ConfiguredRoot(k)) =>
                   Count(autodoc_errors,
                         MissingRootError(ConfiguredRoot(k), options_map.filename)) >= 1
    /\ ProcessReturned =>
           /\ autodoc_entries =
                  Flatten([k \in 1..Len(options_map.documents) |-> RootEntries(k)])
           /\ autodoc_errors =
                  Flatten([k \in 1..Len(options_map.documents) |-> RootErrors(k)])
           /\ result[1].errors = document_errors \o autodoc_errors
           /\ \A k \in 1..Len(autodoc_entries) : Count(entries, autodoc_entries[k]) >= 1

C6_Witness ==
    /\ ProcessReturned
    /\ Len(options_map.documents) = 2
    /\ \E a, b \in 1..2 :
           /\ ~exists(ConfiguredRoot(a))
           /\ exists(ConfiguredRoot(b))
           /\ RootEntries(b) # <<>>
    /\ Len(autodoc_errors) = 1

\* Non-decreasing by the global entry sort key.
IsSorted(seq) ==
    \A k \in 1..(Len(seq) - 1) :
        TupleLeq(entry_sortkey(seq[k]), entry_sortkey(seq[k + 1]))

\* C7: the list process_documents returns is the input entries plus every
\* directive synthesized across all roots, nothing dropped or deduplicated:
\* its length is the input length plus the number of synthesized directives,
\* and it is sorted by the entry sort key; with no document root it is the
\* input, sorted, and the finder has contributed nothing.
C7_MergedAndSorted ==
    ProcessReturned =>
        /\ result[1].entries = entries
        /\ autodoc_entries =
               Flatten([k \in 1..Len(options_map.documents) |-> RootEntries(k)])
        /\ Len(entries) = Len(given) + Len(autodoc_entries)
        /\ BagOf(entries) = BagOf(given) (+) BagOf(autodoc_entries)
        /\ IsSorted(entries)
        /\ options_map.documents = <<>> =>
               /\ autodoc_entries = <<>> /\ autodoc_errors = <<>>
               /\ BagOf(entries) = BagOf(given)

C7_Witness ==
    /\ ProcessReturned
    /\ run = 1
    /\ ~IsSorted(given \o autodoc_entries)
    /\ \E a, b \in 1..Len(autodoc_entries) : a # b /\ autodoc_entries[a] = autodoc_entries[b]
    /\ given # <<>>

\* C8: the errors process_documents returns are the verification errors, in
\* input order, followed by the finder's errors root by root in configuration
\* order; errors of the verifier or of an earlier root stop neither the later
\* roots nor the merge.
C8_ErrorsInOrder ==
    /\ ProcessReturned =>
           /\ result[1].errors =
                  MissingFileErrors(given)
                  \o Flatten([k \in 1..Len(options_map.documents) |-> RootErrors(k)])
           /\ idx = Len(options_map.documents) + 1
    /\ (mode = "process" /\ pc = "loop") =>
           /\ document_errors = MissingFileErrors(given)
           /\ autodoc_errors = Flatten([k \in 1..(idx - 1) |-> RootErrors(k)])
           /\ idx \in 1..(Len(options_map.documents) + 1)

C8_Witness ==
    /\ ProcessReturned
    /\ document_errors # <<>>
    /\ Len(autodoc_errors) = 2
    /\ autodoc_errors[1] # autodoc_errors[2]
    /\ result[1].errors[1].entry # None

\* The number a string of digits denotes, read digit by digit.
Number(digits) ==
    IF Len(digits) = 4
    THEN 1000 * DigitValue(digits[1]) + 100 * DigitValue(digits[2])
         + 10 * DigitValue(digits[3]) + DigitValue(digits[4])
    ELSE 10 * DigitValue(digits[1]) + DigitValue(digits[2])

\* A name of the form YYYY-MM-DD-description.ext.
IsDatedDescription(name) ==
    /\ HasDatePrefix(name)
    /\ Len(name) >= 14
    /\ name[11] = "-"
    /\ \E k \in 13..(Len(name) - 1) : name[k] = "."

\* The directives of a returned call on the files of form
\* YYYY-MM-DD-description.ext: exactly one each, with source (ledger file, 0),
\* the date of the three numeric groups, the account derived from the
\* directory and the path of the directory joined with the file name; the
\* directives come in walk order and there is no error.
EveryDatedFileFound ==
    LET files == WalkedFiles(CalledRoot)
        found == result[1].entries
        Of(p) == {k \in 1..Len(found) : found[k].filename = PathOf(files[p])}
    IN  /\ result[1].errors = <<>>
        /\ \A p \in 1..Len(files) :
               IsDatedDescription(files[p].filename) =>
                   /\ Cardinality(Of(p)) = 1
                   /\ \A k \in Of(p) :
                          found[k] =
                              [kind |-> "Document",
                               source |-> [filename |-> call[1].input_filename,
                                           lineno |-> 0],
                               date |-> <<Number(SubSeq(files[p].filename, 1, 4)),
                                          Number(SubSeq(files[p].filename, 6, 7)),
                                          Number(SubSeq(files[p].filename, 9, 10))>>,
                               account |-> files[p].account_name,
                               filename |-> PathOf(files[p])]
        /\ \A k \in 1..Len(found) : \E p \in 1..Len(files) : k \in Of(p)
        /\ \A p, q \in 1..Len(files) :
               \A k \in Of(p) : \A j \in Of(q) : p < q => k < j

\* The digits of a dated name are a calendar date.
NamesCalendarDate(name) ==
    DateValid(Number(SubSeq(name, 1, 4)), Number(SubSeq(name, 6, 7)),
              Number(SubSeq(name, 9, 10)))

IsSynthesized(e) == e.source.lineno = 0

\* C10: when process_documents is run again on the stream it returned, the
\* file system being unchanged, the new stream is, as a multiset, the
\* previous one plus one further copy of each synthesized directive: the
\* same directives are synthesized again, nothing is removed, and every
\* entry that was not synthesized still occurs exactly once.
C10_SecondRunDuplicatesSynthesized ==
    /\ (mode = "process" /\ run > 1) => pc # "raised"
    /\ (ProcessReturned /\ run > 1) =>
        /\ autodoc_entries = prev[1].synthesized
        /\ BagOf(entries) = BagOf(prev[1].entries) (+) BagOf(prev[1].synthesized)
        /\ \A k \in 1..Len(entries) :
               ~IsSynthesized(entries[k]) =>
                   /\ Count(entries, entries[k]) = 1
                   /\ Count(prev[1].given, entries[k]) = 1
        /\ \A k \in 1..Len(prev[1].given) : Count(entries, prev[1].given[k]) >= 1

C10_Witness ==
    /\ ProcessReturned /\ run = 2
    /\ prev[1].synthesized # <<>>
    /\ \E k \in 1..Len(entries) : ~IsSynthesized(entries[k])
    /\ Len(entries) = Len(prev[1].given) + 2 * Len(prev[1].synthesized)

====
